---------------------------- MODULE Spec2Model ----------------------------
(***************************************************************************)
(* Model of src/index.js: the scraper of birds.peipsi.org.                 *)
(*                                                                         *)
(* A JavaScript string is modelled as the sequence of its UTF-16 code      *)
(* units (naturals): "a" is 97, "/" is 47, Cyrillic "A".."YA" are          *)
(* 1040..1071, "a".."ya" are 1072..1103, "yo" is 1105.  The regular        *)
(* expressions, toUpperCase, replace and trim of the source are computed   *)
(* on these sequences.                                                     *)
(*                                                                         *)
(* A JavaScript value that is either null or a string is a sequence of     *)
(* length 0 (null) or 1 (the string).  An object with optional keys is a   *)
(* function whose domain is the set of keys that are present.              *)
(***************************************************************************)
EXTENDS Naturals, Sequences, FiniteSets, TLC

VARIABLES
    anchors,            \* the <a> elements of the listing document, in document order
    pc,                 \* position of the top-level script / getBirdsData
    browser,            \* "none", "open", "closing", "closed"
    page,               \* the document the page currently shows (<<>>: none, else <<doc>>)
    items,              \* getBirdsData: const items
    idx,                \* getBirdsData: index (1-based) of `item` in the for-of loop
    birdClassification, \* getBirdsData: const birdClassification
    birdDetails,        \* getBirdsData: const birdDetails of the current iteration
    birdsData,          \* getBirdsData: const birdsData
    navigations,        \* history: what page.goto(item) was called with, and what it loaded
    origin,             \* history: for each record of birdsData, the idx it was pushed at
    error,              \* "none", or the error that rejected the top-level await
    writeState,         \* fs.writeFile: "none", "pending", "ok", "failed"
    console             \* lines written by console.log / console.error

vars == <<anchors, pc, browser, page, items, idx, birdClassification, birdDetails,
          birdsData, navigations, origin, error, writeState, console>>

-----------------------------------------------------------------------------
(* Bounds of the model.                                                    *)

\* longest listing (number of anchors) drawn from every anchor of the model
MaxAnchors == 2
\* longest listing drawn from the leaves and the well-formed headings alone
MaxWalk == 4

-----------------------------------------------------------------------------
(* Strings.                                                                *)

Null == <<>>
Some(s) == <<s>>

StartsWithAt(s, i, t) ==
    /\ i >= 1
    /\ i + Len(t) - 1 <= Len(s)
    /\ \A k \in 1..Len(t) : s[i + k - 1] = t[k]

\* String.prototype.slice(a, b) with 1-based inclusive bounds
Slice(s, a, b) == IF a > b THEN <<>> ELSE SubSeq(s, a, b)

IsLowerLatin(c) == c \in 97..122                        \* [a-z]
IsLatin(c) == c \in 97..122 \/ c \in 65..90             \* [a-zA-Z]
IsDigit(c) == c \in 48..57                              \* [0-9]
IsWordChar(c) == IsLatin(c) \/ IsDigit(c) \/ c = 95     \* \w
IsLeafSlugChar(c) == IsLowerLatin(c) \/ IsDigit(c) \/ c = 45   \* [a-z-0-9]
IsHeadingSlugChar(c) == IsLowerLatin(c) \/ c = 45       \* [a-z-]
IsCyrillic(c) == c \in 1040..1103 \/ c = 1105           \* [A-YAa-yayo] (Cyrillic)
IsSpace(c) == c \in {9, 10, 11, 12, 13, 32, 160, 5760, 8232, 8233, 8239, 8287, 12288, 65279}
                 \/ c \in 8192..8202                    \* \s
IsRusHead(c) == IsCyrillic(c) \/ c = 45                 \* [A-YAa-yayo-]
IsRusTail(c) == IsCyrillic(c) \/ IsSpace(c)             \* [A-YAa-yayo\s]

\* String.prototype.toUpperCase on one code unit (Latin and Cyrillic letters)
toUpperCaseUnit(c) ==
    IF c \in 97..122 THEN c - 32
    ELSE IF c \in 1072..1103 THEN c - 32
    ELSE IF c \in 1104..1119 THEN c - 80
    ELSE c

toUpperCase(s) == [k \in 1..Len(s) |-> toUpperCaseUnit(s[k])]

\* String.prototype.trim
trim(s) ==
    IF \A k \in 1..Len(s) : IsSpace(s[k]) THEN <<>>
    ELSE LET a == CHOOSE k \in 1..Len(s) :
                    ~IsSpace(s[k]) /\ \A m \in 1..(k - 1) : IsSpace(s[m])
             b == CHOOSE k \in 1..Len(s) :
                    ~IsSpace(s[k]) /\ \A m \in (k + 1)..Len(s) : IsSpace(s[m])
         IN  SubSeq(s, a, b)

\* String.prototype.replace(pattern, '') with a string pattern: the first
\* occurrence of the pattern is removed, wherever it is
replace(s, pattern) ==
    IF \E i \in 1..Len(s) : StartsWithAt(s, i, pattern)
    THEN LET i == CHOOSE p \in 1..Len(s) :
                     /\ StartsWithAt(s, p, pattern)
                     /\ \A q \in 1..(p - 1) : ~StartsWithAt(s, q, pattern)
         IN  Slice(s, 1, i - 1) \o Slice(s, i + Len(pattern), Len(s))
    ELSE s

\* in is the sequence of flags "unit k is in the class": index of the last
\* unit of the longest run of units of the class that starts at i (i - 1 when
\* the run is empty): a greedy [class]* at position i
RunEnd(in, i) ==
    IF i > Len(in) \/ ~in[i] THEN i - 1
    ELSE CHOOSE e \in i..Len(in) :
            /\ \A k \in i..e : in[k]
            /\ (e = Len(in) \/ ~in[e + 1])

Reference == <<114, 101, 102, 101, 114, 101, 110, 99, 101>>   \* "reference"
En == <<101, 110>>                                            \* "en"
SignsLabel == <<1055, 1088, 1080, 1079, 1085, 1072, 1082, 1080, 46, 32>>
HabitatLabel == <<1052, 1077, 1089, 1090, 1086, 1086, 1073, 1080, 1090, 1072,
                  1085, 1080, 1077, 46, 32>>
HttpPrefix == <<104, 116, 116, 112, 58, 47, 47>>              \* "http://"
HttpsPrefix == <<104, 116, 116, 112, 115, 58, 47, 47>>        \* "https://"


-----------------------------------------------------------------------------
(* The pure functions of the source.                                       *)

Return(v) == [threw |-> FALSE, value |-> v]
Throw == [threw |-> TRUE, value |-> <<>>]

\* elem.href.match(/\/(?!reference|en)[a-z]+\/\w+\/[a-z-0-9]+?\/$/)
MatchesLeaf(href) ==
    \E i \in 1..Len(href) :
        /\ href[i] = 47
        /\ ~StartsWithAt(href, i + 1, Reference)
        /\ ~StartsWithAt(href, i + 1, En)
        /\ \E j \in (i + 2)..Len(href) :
            /\ href[j] = 47
            /\ \A k \in (i + 1)..(j - 1) : IsLowerLatin(href[k])
            /\ \E m \in (j + 2)..(Len(href) - 2) :
                /\ href[m] = 47
                /\ \A k \in (j + 1)..(m - 1) : IsWordChar(href[k])
                /\ \A k \in (m + 1)..(Len(href) - 1) : IsLeafSlugChar(href[k])
                /\ href[Len(href)] = 47

\* elem.href.match(/(reference)\/\w+\/$/)
MatchesHeadingShort(href) ==
    \E i \in 1..Len(href) :
        /\ StartsWithAt(href, i, Reference)
        /\ i + Len(Reference) <= Len(href) - 2
        /\ href[i + Len(Reference)] = 47
        /\ \A k \in (i + Len(Reference) + 1)..(Len(href) - 1) : IsWordChar(href[k])
        /\ href[Len(href)] = 47

\* elem.href.match(/(reference)\/\w+\/[a-z-]+\/$/)
MatchesHeadingLong(href) ==
    \E i \in 1..Len(href) :
        /\ StartsWithAt(href, i, Reference)
        /\ i + Len(Reference) <= Len(href)
        /\ href[i + Len(Reference)] = 47
        /\ \E m \in (i + Len(Reference) + 2)..(Len(href) - 2) :
            /\ href[m] = 47
            /\ \A k \in (i + Len(Reference) + 1)..(m - 1) : IsWordChar(href[k])
            /\ \A k \in (m + 1)..(Len(href) - 1) : IsHeadingSlugChar(href[k])
            /\ href[Len(href)] = 47

\* itemOf with a fault: the text is returned for a leaf href as well
itemOfText(elem) ==
    IF MatchesLeaf(elem.href) \/ MatchesHeadingShort(elem.href) \/ MatchesHeadingLong(elem.href)
    THEN Some(elem.textContent)
    ELSE Null

\* the callback of Array.from in getItems: the item of one anchor, or null
itemOf(elem) ==
    IF MatchesLeaf(elem.href) THEN Some(elem.href)
    ELSE IF MatchesHeadingShort(elem.href) THEN Some(elem.textContent)
    ELSE IF MatchesHeadingLong(elem.href) THEN Some(elem.textContent)
    ELSE Null

IsCandidate(elem) == itemOf(elem) # Null

\* getItems: the items of the anchors, nulls filtered out, in document order
getItems(elements) ==
    LET kept == SelectSeq(elements, IsCandidate)
    IN  [k \in 1..Len(kept) |-> itemOf(kept[k])[1]]

\* extractOrder with a fault: only the first unit is compared
extractOrderByFirst(url) ==
    IF url # <<>> /\ url[1] = toUpperCaseUnit(url[1]) THEN Return(Some(url)) ELSE Return(Null)

\* extractOrder: the url when it equals its upper-case form, else null
extractOrder(url) ==
    IF url = toUpperCase(url) THEN Return(Some(url)) ELSE Return(Null)

\* extractFamily: url[0] is undefined for the empty string, and
\* undefined.toUpperCase() throws a TypeError
extractFamily(url) ==
    IF url = <<>> THEN Throw
    ELSE IF url[1] = toUpperCaseUnit(url[1]) THEN Return(Some(url))
    ELSE Return(Null)

\* truthiness of a value that is null or a string: `if (order)`
Truthy(v) == v # Null /\ v[1] # <<>>

\* page.$eval(selector, el => el.textContent): throws when nothing matches
QueryText(element) == IF element = Null THEN Throw ELSE Return(element[1])

\* title.match(/[A-YAa-yayo-]+\s*[A-YAa-yayo\s]*(\((?:[A-YAa-yayo\s]+)\))?/):
\* the first (leftmost, greedy) match, or null
MatchRusName(title) ==
    IF \A k \in 1..Len(title) : ~IsRusHead(title[k]) THEN Null
    ELSE LET i  == CHOOSE k \in 1..Len(title) :
                     IsRusHead(title[k]) /\ \A m \in 1..(k - 1) : ~IsRusHead(title[m])
             head  == [k \in 1..Len(title) |-> IsRusHead(title[k])]
             space == [k \in 1..Len(title) |-> IsSpace(title[k])]
             tail  == [k \in 1..Len(title) |-> IsRusTail(title[k])]
             e1 == RunEnd(head, i)
             e2 == RunEnd(space, e1 + 1)
             e3 == RunEnd(tail, e2 + 1)
             g  == RunEnd(tail, e3 + 2)
             e  == IF /\ e3 + 1 <= Len(title)
                      /\ title[e3 + 1] = 40
                      /\ g >= e3 + 2
                      /\ g + 1 <= Len(title)
                      /\ title[g + 1] = 41
                   THEN g + 1 ELSE e3
         IN  Some(SubSeq(title, i, e))

\* end of the match of /[a-zA-Z]+\s?[a-zA-Z]+/ that starts at i, 0 when none
LatMatchEnd(title, i) ==
    IF ~IsLatin(title[i]) THEN 0
    ELSE LET latin == [k \in 1..Len(title) |-> IsLatin(title[k])]
             e1 == RunEnd(latin, i)
         IN  IF /\ e1 + 2 <= Len(title)
                /\ IsSpace(title[e1 + 1])
                /\ IsLatin(title[e1 + 2])
             THEN RunEnd(latin, e1 + 2)
             ELSE IF e1 > i THEN e1 ELSE 0

\* title.match(/[a-zA-Z]+\s?[a-zA-Z]+/): the first match, or null
MatchLatName(title) ==
    IF \A k \in 1..Len(title) : LatMatchEnd(title, k) = 0 THEN Null
    ELSE LET i == CHOOSE k \in 1..Len(title) :
                    LatMatchEnd(title, k) # 0 /\ \A m \in 1..(k - 1) : LatMatchEnd(title, m) = 0
         IN  Some(SubSeq(title, i, LatMatchEnd(title, i)))

\* extractRusName: null[0] throws a TypeError when the title has no match
extractRusName(doc) ==
    LET title == QueryText(doc.h1)
    IN  IF title.threw THEN Throw
        ELSE IF MatchRusName(title.value) = Null THEN Throw
        ELSE Return(trim(MatchRusName(title.value)[1]))

extractLatName(doc) ==
    LET title == QueryText(doc.h1)
    IN  IF title.threw THEN Throw
        ELSE IF MatchLatName(title.value) = Null THEN Throw
        ELSE Return(trim(MatchLatName(title.value)[1]))

extractSigns(doc) ==
    LET signs == QueryText(doc.p1)
    IN  IF signs.threw THEN Throw ELSE Return(replace(signs.value, SignsLabel))

\* extractHabitat with a fault: a missing paragraph reads as the empty string
extractHabitatDefault(doc) ==
    IF doc.p2 = Null THEN Return(<<>>) ELSE Return(replace(doc.p2[1], HabitatLabel))

extractHabitat(doc) ==
    LET habitat == QueryText(doc.p2)
    IN  IF habitat.threw THEN Throw ELSE Return(replace(habitat.value, HabitatLabel))

\* page.goto(url) of Playwright rejects a string that is no absolute URL
\* ("Cannot navigate to invalid URL") before any request is made
IsNavigable(url) == StartsWithAt(url, 1, HttpPrefix) \/ StartsWithAt(url, 1, HttpsPrefix)

\* objects with optional keys
EmptyObject == [k \in {} |-> <<>>]
\* SetKey with a fault: the assignment replaces the object
SetKeyReset(obj, key, val) == [k \in {key} |-> val]
SetKey(obj, key, val) == [k \in DOMAIN obj \cup {key} |-> IF k = key THEN val ELSE obj[k]]
\* Spread with a fault: only the second object is copied
SpreadSecond(a, b) == b
\* {...a, ...b}
Spread(a, b) == [k \in DOMAIN a \cup DOMAIN b |-> IF k \in DOMAIN b THEN b[k] ELSE a[k]]

-----------------------------------------------------------------------------
(* The inputs: what the site serves.                                       *)

HomeUrl == <<104, 116, 116, 112, 115, 58, 47, 47, 98, 105, 114, 100, 115, 46, 112,
             101, 105, 112, 115, 105, 46, 111, 114, 103, 47>>  \* "https://birds.peipsi.org/"

\* paths below the home URL
LeafPathA == <<115, 111, 118, 121, 47, 115, 111, 118, 97, 47, 115, 101, 114, 97,
               121, 97, 45, 49, 47>>                     \* "sovy/sova/seraya-1/"
LeafPathB == <<103, 117, 115, 105, 47, 117, 116, 107, 105, 47, 99, 104, 105, 114,
               111, 107, 47>>                            \* "gusi/utki/chirok/"
ShortPath == <<114, 101, 102, 101, 114, 101, 110, 99, 101, 47, 115, 111, 118, 121, 47>>
                                                         \* "reference/sovy/"
LongPath == <<114, 101, 102, 101, 114, 101, 110, 99, 101, 47, 115, 111, 118, 121,
              47, 115, 111, 118, 97, 47>>                \* "reference/sovy/sova/"
EnPath == <<101, 110, 47, 115, 111, 118, 121, 47, 115, 111, 118, 97, 47>>
                                                         \* "en/sovy/sova/"
LeafHrefA == HomeUrl \o LeafPathA
LeafHrefB == HomeUrl \o LeafPathB
ShortHref == HomeUrl \o ShortPath
LongHref == HomeUrl \o LongPath
EnHref == HomeUrl \o EnPath
\* "xreference/sovy/sova/": the leaf shape and the long heading shape both match
BothHref == HomeUrl \o <<120>> \o LongPath

\* anchor texts (Cyrillic, transliterated in the comments)
TokSOVY == <<1057, 1054, 1042, 1067>>       \* "SOVY": upper case
TokGUSI == <<1043, 1059, 1057, 1048>>       \* "GUSI": upper case
TokSova == <<1057, 1086, 1074, 1072>>       \* "Sova": capitalised
TokUtki == <<1059, 1090, 1082, 1080>>       \* "Utki": capitalised
TokLower == <<1089, 1086, 1074, 1099>>      \* "sovy": lower case
TokDigit == <<49, 1072>>                    \* "1a": a digit, then lower case
TokEmpty == <<>>                            \* "": an anchor without text

Anchor(href, text) == [href |-> href, textContent |-> text]

\* anchors of the walk: leaves and well-formed headings
WalkAnchors ==
    { Anchor(LeafHrefA, TokSOVY),
      Anchor(ShortHref, TokSOVY), Anchor(LongHref, TokGUSI),
      Anchor(LongHref, TokSova), Anchor(ShortHref, TokUtki) }

\* every anchor of the model
AllAnchors ==
    WalkAnchors \cup
    { Anchor(LeafHrefB, TokSova),
      Anchor(ShortHref, TokLower), Anchor(LongHref, TokEmpty),
      Anchor(LongHref, TokDigit), Anchor(ShortHref, LeafHrefB),
      Anchor(EnHref, TokSOVY), Anchor(BothHref, TokGUSI) }

SeqsUpTo(S, n) == UNION { [1..k -> S] : k \in 0..n }

Listings == SeqsUpTo(AllAnchors, MaxAnchors) \cup SeqsUpTo(WalkAnchors, MaxWalk)

\* texts of leaf pages
H1Chomga == <<1063, 1086, 1084, 1075, 1072, 32, 80, 111, 100, 105, 99, 101, 112,
              115, 32, 99, 114, 105, 115, 116, 97, 116, 117, 115>>
                                            \* "Chomga Podiceps cristatus"
H1Sova == <<1057, 1086, 1074, 1072, 32, 40, 1089, 1077, 1088, 1072, 1103, 41, 32,
            83, 116, 114, 105, 120, 32, 97, 108, 117, 99, 111>>
                                            \* "Sova (seraya) Strix aluco"
H1NoRus == <<83, 116, 114, 105, 120, 32, 97, 108, 117, 99, 111>>   \* "Strix aluco"
H1NoLat == <<1057, 1086, 1074, 1072>>                              \* "Sova"
P1Label == <<1055, 1088, 1080, 1079, 1085, 1072, 1082, 1080, 46, 32, 1050, 1088,
             1091, 1087, 1085, 1072, 1103, 46>>     \* "Priznaki. Krupnaya."
P2Label == <<1052, 1077, 1089, 1090, 1086, 1086, 1073, 1080, 1090, 1072, 1085,
             1080, 1077, 46, 32, 1054, 1079, 1105, 1088, 1072, 46>>
                                                    \* "Mestoobitanie. Ozyora."
P1Inner == <<1057, 1086, 1074, 1072, 46, 32, 1055, 1088, 1080, 1079, 1085, 1072,
             1082, 1080, 46, 32, 1057, 1077, 1088, 1072, 1103, 46>>
                                                    \* "Sova. Priznaki. Seraya."
P2Inner == <<1051, 1077, 1089, 46, 32, 1052, 1077, 1089, 1090, 1086, 1086, 1073,
             1080, 1090, 1072, 1085, 1080, 1077, 46, 32, 1055, 1072, 1088, 1082,
             1080, 46>>                             \* "Les. Mestoobitanie. Parki."

\* a document as the extractors see it: the text of `article h1`, of
\* `article p:nth-of-type(1)` and of `article p:nth-of-type(2)`, null when
\* no element matches the selector
Doc(h1, p1, p2) == [h1 |-> h1, p1 |-> p1, p2 |-> p2]

ListingDoc == Doc(Null, Null, Null)

Documents ==
    { Doc(Some(H1Chomga), Some(P1Label), Some(P2Label)),
      Doc(Some(H1Sova), Some(P1Inner), Some(P2Inner)),
      Doc(Null, Some(P1Label), Some(P2Label)),
      Doc(Some(H1NoRus), Some(P1Label), Some(P2Label)),
      Doc(Some(H1NoLat), Some(P1Label), Some(P2Label)),
      Doc(Some(H1Chomga), Null, Null),
      Doc(Some(H1Chomga), Some(P1Label), Null) }

-----------------------------------------------------------------------------
(* The script.                                                             *)

Init ==
    /\ anchors \in Listings
    /\ pc = "launch"
    /\ browser = "none"
    /\ page = Null
    /\ items = <<>>
    /\ idx = 0
    /\ birdClassification = EmptyObject
    /\ birdDetails = EmptyObject
    /\ birdsData = <<>>
    /\ navigations = <<>>
    /\ origin = <<>>
    /\ error = "none"
    /\ writeState = "none"
    /\ console = <<>>

\* an await whose promise rejects: the top-level await rethrows, nothing
\* catches it, and the script ends there
Reject(by) == pc' = "rejected" /\ error' = by

\* chromium.launch, browser.newPage
Launch ==
    /\ pc = "launch"
    /\ browser' = "open"
    /\ pc' = "gotoHome"
    /\ UNCHANGED <<anchors, page, items, idx, birdClassification, birdDetails,
                   birdsData, navigations, origin, error, writeState, console>>

\* await page.goto('https://birds.peipsi.org/')
GotoHome ==
    /\ pc = "gotoHome"
    /\ \E ok \in BOOLEAN :
        IF ok THEN /\ page' = Some([url |-> HomeUrl, doc |-> ListingDoc])
                   /\ pc' = "expands"
                   /\ UNCHANGED error
        ELSE /\ Reject("goto")
             /\ UNCHANGED page
    /\ UNCHANGED <<anchors, browser, items, idx, birdClassification, birdDetails,
                   birdsData, navigations, origin, writeState, console>>

\* await expands(page): the clicks reveal the sections; `anchors` is the
\* listing as getElementsByTagName('a') then sees it
expands ==
    /\ pc = "expands"
    /\ pc' = "getBirdsData"
    /\ UNCHANGED <<anchors, browser, page, items, idx, birdClassification,
                   birdDetails, birdsData, navigations, origin, error, writeState,
                   console>>

\* getBirdsData, up to the loop
GetBirdsDataEntry ==
    /\ pc = "getBirdsData"
    /\ items' = getItems(anchors)
    /\ birdsData' = <<>>
    /\ birdClassification' = EmptyObject
    /\ idx' = 0
    /\ pc' = "for"
    /\ UNCHANGED <<anchors, browser, page, birdDetails, navigations, origin, error,
                   writeState, console>>

\* for (const item of items): the next item, or `return birdsData`
ForNext ==
    /\ pc = "for"
    /\ IF idx < Len(items)
       THEN /\ idx' = idx + 1
            /\ birdDetails' = EmptyObject
            /\ pc' = "classify"
       ELSE /\ pc' = "saveToJson"
            /\ UNCHANGED <<idx, birdDetails>>
    /\ UNCHANGED <<anchors, browser, page, items, birdClassification, birdsData,
                   navigations, origin, error, writeState, console>>

\* extractOrder, extractFamily and the two `if ... continue`
Classify ==
    /\ pc = "classify"
    /\ LET item == items[idx]
           order == extractOrder(item)
           family == extractFamily(item)
       IN  IF order.threw THEN Reject("extractOrder") /\ UNCHANGED birdClassification
           ELSE IF family.threw THEN Reject("extractFamily") /\ UNCHANGED birdClassification
           ELSE IF Truthy(order.value)
                THEN /\ birdClassification' = SetKey(birdClassification, "order", order.value[1])
                     /\ pc' = "for"
                     /\ UNCHANGED error
           ELSE IF Truthy(family.value)
                THEN /\ birdClassification' = SetKey(birdClassification, "family", family.value[1])
                     /\ pc' = "for"
                     /\ UNCHANGED error
           ELSE /\ pc' = "goto"
                /\ UNCHANGED <<birdClassification, error>>
    /\ UNCHANGED <<anchors, browser, page, items, idx, birdDetails, birdsData,
                   navigations, origin, writeState, console>>

\* await page.goto(item)
Goto ==
    /\ pc = "goto"
    /\ LET item == items[idx]
       IN  IF ~IsNavigable(item)
           THEN /\ navigations' = Append(navigations, [at |-> idx, url |-> item, loaded |-> Null])
                /\ Reject("goto")
                /\ UNCHANGED page
           ELSE \E loaded \in {Null} \cup {Some(d) : d \in Documents} :
                /\ navigations' = Append(navigations, [at |-> idx, url |-> item, loaded |-> loaded])
                /\ IF loaded = Null
                   THEN Reject("goto") /\ UNCHANGED page
                   ELSE /\ page' = Some([url |-> item, doc |-> loaded[1]])
                        /\ pc' = "rusName"
                        /\ UNCHANGED error
    /\ UNCHANGED <<anchors, browser, items, idx, birdClassification, birdDetails,
                   birdsData, origin, writeState, console>>

\* birdDetails.<key> = await <extract>(page), then on to `next`
ExtractStep(at, key, result, next) ==
    /\ pc = at
    /\ IF result.threw
       THEN Reject(at) /\ UNCHANGED birdDetails
       ELSE /\ birdDetails' = SetKey(birdDetails, key, result.value)
            /\ pc' = next
            /\ UNCHANGED error
    /\ UNCHANGED <<anchors, browser, page, items, idx, birdClassification, birdsData,
                   navigations, origin, writeState, console>>

RusName == ExtractStep("rusName", "rusName", extractRusName(page[1].doc), "latName")
LatName == ExtractStep("latName", "latName", extractLatName(page[1].doc), "signs")
Signs == ExtractStep("signs", "signs", extractSigns(page[1].doc), "habitat")
Habitat == ExtractStep("habitat", "habitat", extractHabitat(page[1].doc), "push")

\* birdsData.push({...birdClassification, ...birdDetails})
Push ==
    /\ pc = "push"
    /\ birdsData' = Append(birdsData, Spread(birdClassification, birdDetails))
    /\ origin' = Append(origin, idx)
    /\ pc' = "for"
    /\ UNCHANGED <<anchors, browser, page, items, idx, birdClassification, birdDetails,
                   navigations, error, writeState, console>>

\* await saveToJson('peipsi-birds', birdsData): fs.writeFile is started with
\* a callback, and the async function returns without waiting for it
saveToJson ==
    /\ pc = "saveToJson"
    /\ writeState' = "pending"
    /\ pc' = "close"
    /\ UNCHANGED <<anchors, browser, page, items, idx, birdClassification, birdDetails,
                   birdsData, navigations, origin, error, console>>

\* browser.close() is called in the continuation of the await above
BrowserClose ==
    /\ pc = "close"
    /\ browser' = "closing"
    /\ pc' = "closing"
    /\ UNCHANGED <<anchors, page, items, idx, birdClassification, birdDetails,
                   birdsData, navigations, origin, error, writeState, console>>

\* the promise of browser.close() resolves
BrowserClosed ==
    /\ pc = "closing"
    /\ browser' = "closed"
    /\ pc' = "done"
    /\ UNCHANGED <<anchors, page, items, idx, birdClassification, birdDetails,
                   birdsData, navigations, origin, error, writeState, console>>

\* the callback of fs.writeFile: an I/O callback, which the event loop runs
\* only once the script has yielded at `await browser.close()`
WriteFileCallback ==
    /\ writeState = "pending"
    /\ pc \in {"closing", "done"}
    /\ \E err \in BOOLEAN :
        /\ writeState' = IF err THEN "failed" ELSE "ok"
        /\ console' = Append(console, IF err THEN "error" ELSE "log")
    /\ UNCHANGED <<anchors, pc, browser, page, items, idx, birdClassification,
                   birdDetails, birdsData, navigations, origin, error>>

Next ==
    \/ Launch
    \/ GotoHome
    \/ expands
    \/ GetBirdsDataEntry
    \/ ForNext
    \/ Classify
    \/ Goto
    \/ RusName
    \/ LatName
    \/ Signs
    \/ Habitat
    \/ Push
    \/ saveToJson
    \/ BrowserClose
    \/ BrowserClosed
    \/ WriteFileCallback

Spec == Init /\ [][Next]_vars

-----------------------------------------------------------------------------
(* The vocabulary of the specification, read off the listing.              *)

\* the Candidate Links: the anchors one of the three URL shapes accepts.  The
\* shapes are matched once, over the anchors of the model.
LeafAnchors == { a \in AllAnchors : MatchesLeaf(a.href) }
HeadingAnchors ==
    { a \in AllAnchors :
        ~MatchesLeaf(a.href) /\ (MatchesHeadingShort(a.href) \/ MatchesHeadingLong(a.href)) }
IsLeafCandidate(a) == a \in LeafAnchors
IsHeadingCandidate(a) == a \in HeadingAnchors
IsCandidateLink(a) == IsLeafCandidate(a) \/ IsHeadingCandidate(a)
CandidateList == SelectSeq(anchors, IsCandidateLink)

\* a code unit is upper case when upper-casing leaves it as it is
IsUpperUnit(c) == toUpperCaseUnit(c) = c
EntirelyUpper(t) == t # <<>> /\ \A k \in 1..Len(t) : IsUpperUnit(t[k])
FirstUpper(t) == t # <<>> /\ IsUpperUnit(t[1])

OrderMarkers == { a \in HeadingAnchors : EntirelyUpper(a.textContent) }
FamilyMarkers ==
    { a \in HeadingAnchors : FirstUpper(a.textContent) /\ ~EntirelyUpper(a.textContent) }
\* headings whose token is neither: the Discard of the classifier
DiscardHeadings ==
    { a \in HeadingAnchors : a.textContent # <<>> /\ ~IsUpperUnit(a.textContent[1]) }
IsOrderMarker(a) == a \in OrderMarkers
IsFamilyMarker(a) == a \in FamilyMarkers
IsDiscardHeading(a) == a \in DiscardHeadings

\* the loop is at a candidate of the list cl
AtCandidate(cl) == idx \in 1..Len(cl) /\ Len(items) = Len(cl)

VisitSteps == {"goto", "rusName", "latName", "signs", "habitat", "push"}
Returned == pc \in {"saveToJson", "close", "closing", "done"}

Has(obj, key) == key \in DOMAIN obj

\* obj and obj2 agree on key: both lack it, or both have it with one value
SameKey(obj, obj2, key) ==
    /\ Has(obj, key) <=> Has(obj2, key)
    /\ Has(obj, key) => obj[key] = obj2[key]

\* positions before p in the candidate list that hold a marker of one kind
OrdersBefore(cl, p) == { q \in 1..(p - 1) : IsOrderMarker(cl[q]) }
FamiliesBefore(cl, p) == { q \in 1..(p - 1) : IsFamilyMarker(cl[q]) }
Last(S) == CHOOSE q \in S : \A r \in S : r <= q

\* the record carries, under key, the token of the last marker of markers,
\* and lacks the key when there is none
Carries(cl, record, key, markers) ==
    IF markers = {} THEN ~Has(record, key)
    ELSE Has(record, key) /\ record[key] = cl[Last(markers)].textContent

-----------------------------------------------------------------------------
(* The claims.                                                             *)

\* C1: every record of birdsData carries as `order` (as `family`) the token of
\* the most recent Order (Family) Marker before the candidate it was built
\* from, and lacks the field when no such marker precedes it; this holds of a
\* record for as long as the traversal runs, so later markers do not change it.
C1_ContextCarry ==
    LET cl == CandidateList
    IN  \A r \in 1..Len(birdsData) :
            /\ r <= Len(origin)
            /\ Carries(cl, birdsData[r], "order", OrdersBefore(cl, origin[r]))
            /\ Carries(cl, birdsData[r], "family", FamiliesBefore(cl, origin[r]))

\* the traversal returned two records: the first, built before any marker,
\* has neither field although markers follow it; the second has both
C1_Witness ==
    /\ Returned
    /\ Len(birdsData) = 2
    /\ ~Has(birdsData[1], "order") /\ ~Has(birdsData[1], "family")
    /\ Has(birdsData[2], "order") /\ Has(birdsData[2], "family")

\* C2: the step that classifies a heading whose token is entirely upper case
\* sets birdClassification.order to the token and leaves .family as it was; the
\* step that classifies a heading whose token starts upper case without being
\* entirely upper case sets .family to the token and leaves .order as it was.
C2_OrderVersusFamily ==
    [][ LET cl == CandidateList
            Current == cl[idx]
        IN
        (pc = "classify" /\ AtCandidate(cl)) =>
          /\ IsOrderMarker(Current) =>
                /\ pc' = "for"
                /\ Has(birdClassification', "order")
                /\ birdClassification'["order"] = Current.textContent
                /\ SameKey(birdClassification, birdClassification', "family")
          /\ IsFamilyMarker(Current) =>
                /\ pc' = "for"
                /\ Has(birdClassification', "family")
                /\ birdClassification'["family"] = Current.textContent
                /\ SameKey(birdClassification, birdClassification', "order")
      ]_vars

\* both kinds were classified, the order from a heading of the long URL shape
\* and the family from a heading of the short one
C2_Witness ==
    /\ pc = "for"
    /\ Has(birdClassification, "order") /\ birdClassification["order"] = TokGUSI
    /\ Has(birdClassification, "family") /\ birdClassification["family"] = TokUtki

\* C3: while the loop is at an anchor whose href has the leaf shape, whatever
\* its text, no step changes birdClassification; the classification goes on to
\* page.goto, page.goto is called with that href, only the push changes
\* birdsData and it appends exactly one record.
C3_LeafHandledAsLeaf ==
    [][ LET cl == CandidateList
            Current == cl[idx]
        IN
        (pc \in {"classify"} \cup VisitSteps /\ AtCandidate(cl) /\ IsLeafCandidate(Current)) =>
          /\ birdClassification' = birdClassification
          /\ pc = "classify" => pc' = "goto"
          /\ pc = "goto" =>
                /\ Len(navigations') = Len(navigations) + 1
                /\ navigations'[Len(navigations')].url = Current.href
          /\ pc # "goto" => navigations' = navigations
          /\ pc = "push" =>
                /\ Len(birdsData') = Len(birdsData) + 1
                /\ SubSeq(birdsData', 1, Len(birdsData)) = birdsData
                /\ pc' = "for"
          /\ pc # "push" => birdsData' = birdsData
      ]_vars

\* a leaf anchor whose text is an upper-case token was visited and its record
\* pushed, with no order set
C3_Witness ==
    /\ pc = "for"
    /\ AtCandidate(CandidateList)
    /\ CandidateList[idx] = Anchor(LeafHrefA, TokSOVY)
    /\ Len(birdsData) = 1 /\ origin[1] = idx
    /\ Len(navigations) = 1 /\ navigations[1].url = LeafHrefA
    /\ birdClassification = EmptyObject

\* C4: a heading whose token is neither entirely upper case nor upper case in
\* its first unit is skipped: page.goto is never called for it and the
\* traversal does not abort at it.
C4_DiscardSkipped ==
    LET cl == CandidateList
    IN  /\ \A n \in 1..Len(navigations) : ~IsDiscardHeading(cl[navigations[n].at])
        /\ (pc = "rejected" /\ AtCandidate(cl)) => ~IsDiscardHeading(cl[idx])

\* a navigation that fails, or that loads a document without the heading,
\* without a match of a name pattern, or without the first or second paragraph
Malformed(doc) ==
    \/ doc.h1 = Null
    \/ doc.p1 = Null
    \/ doc.p2 = Null
    \/ (doc.h1 # Null /\ (MatchRusName(doc.h1[1]) = Null \/ MatchLatName(doc.h1[1]) = Null))
MalformedDocuments == { d \in Documents : Malformed(d) }
FailedVisit(v) == v.loaded = Null \/ v.loaded[1] \in MalformedDocuments

\* C5: a failed visit is the last navigation of the traversal; no record is
\* ever built from its candidate, the loop never moves past it, and the
\* traversal never returns: it is inside that visit or rejected.
C5_FailFast ==
    \A n \in 1..Len(navigations) :
        FailedVisit(navigations[n]) =>
            /\ n = Len(navigations)
            /\ idx = navigations[n].at
            /\ \A r \in 1..Len(origin) : origin[r] # navigations[n].at
            /\ Len(birdsData) = n - 1
            /\ pc \in {"rusName", "latName", "signs", "habitat", "rejected"}
            /\ (pc = "rejected" => error \in {"goto", "rusName", "latName", "signs", "habitat"})

\* the second leaf's page had no second paragraph: rejected there, with the
\* first leaf's record alone and a candidate left unprocessed
C5_Witness ==
    /\ pc = "rejected"
    /\ error = "habitat"
    /\ Len(birdsData) = 1
    /\ Len(navigations) = 2
    /\ idx < Len(items)

\* C6: once the awaited saveToJson has returned, the write has finished.
C6_WriteAwaited ==
    pc \in {"close", "closing", "done"} => writeState \in {"ok", "failed"}

\* the paragraph with the label removed when it starts with it, else verbatim
StripLeading(s, label) ==
    IF StartsWithAt(s, 1, label) THEN Slice(s, Len(label) + 1, Len(s)) ELSE s

\* the document loaded for the candidate at position p
LoadedAt(p) ==
    LET n == CHOOSE k \in 1..Len(navigations) : navigations[k].at = p
    IN  navigations[n].loaded[1]

\* C7: signs (habitat) of every record is the first (second) paragraph of its
\* page with the label removed only when the paragraph starts with it.
C7_LeadingLabelOnly ==
    \A r \in 1..Len(birdsData) :
        /\ birdsData[r]["signs"] = StripLeading(LoadedAt(origin[r]).p1[1], SignsLabel)
        /\ birdsData[r]["habitat"] = StripLeading(LoadedAt(origin[r]).p2[1], HabitatLabel)

\* C8: the step that processes an Order Marker changes birdClassification.order
\* and nothing else: .family, birdsData, the page and the navigations stay; the
\* step that processes a Family Marker likewise changes .family alone.
C8_MarkerFrame ==
    [][ LET cl == CandidateList
            Current == cl[idx]
        IN
        (pc = "classify" /\ AtCandidate(cl) /\ (IsOrderMarker(Current) \/ IsFamilyMarker(Current))) =>
          /\ birdsData' = birdsData
          /\ page' = page
          /\ navigations' = navigations
          /\ items' = items /\ idx' = idx
          /\ DOMAIN birdClassification' \subseteq {"order", "family"}
          /\ IF IsOrderMarker(Current)
             THEN SameKey(birdClassification, birdClassification', "family")
             ELSE SameKey(birdClassification, birdClassification', "order")
      ]_vars

\* order, family, a new order, a leaf: the record has the new order and the
\* family set under the previous order
C8_Witness ==
    LET cl == CandidateList
    IN  /\ Returned
        /\ Len(birdsData) = 1
        /\ Len(cl) = 4
        /\ IsOrderMarker(cl[1])
        /\ IsFamilyMarker(cl[2])
        /\ IsOrderMarker(cl[3])
        /\ cl[3].textContent # cl[1].textContent
        /\ birdsData[1]["order"] = cl[3].textContent
        /\ birdsData[1]["family"] = cl[2].textContent

\* positions of the leaf candidates of cl, in list order
LeafPositions(cl) ==
    LET IsLeafAt(q) == IsLeafCandidate(cl[q])
    IN  SelectSeq([q \in 1..Len(cl) |-> q], IsLeafAt)

\* C9: when the traversal has returned, the navigations are those of the leaf
\* candidates, in list order and one each, and the i-th record is the one
\* built from the i-th leaf.
C9_VisitsAreLeaves ==
    LET cl == CandidateList
        leaves == LeafPositions(cl)
    IN  Returned =>
            /\ Len(navigations) = Len(leaves)
            /\ \A i \in 1..Len(navigations) :
                  /\ navigations[i].at = leaves[i]
                  /\ navigations[i].url = cl[leaves[i]].href
            /\ origin = leaves
            /\ Len(birdsData) = Len(leaves)

\* C10: the classification of a candidate never raises.
C10_ClassifyTotal ==
    error \notin {"extractOrder", "extractFamily"}

=============================================================================
